---------------------------- MODULE Spec2Model ----------------------------
(***************************************************************************)
(* A model of the Stability AI tool server: the model registry and the     *)
(* parameter validator (models.py), the generation client                  *)
(* (stability_client.py), the storage manager (utils.py) and the tool      *)
(* facade (stability_mcp_server.py).                                       *)
(*                                                                         *)
(* Conventions.                                                            *)
(*  - An optional Python value is a sequence of length at most one: <<>>   *)
(*    is None and <<v>> is the value v.                                    *)
(*  - A Python int that may exceed 32 bits (a seed) is a record            *)
(*    [hi, lo] standing for hi * 2^16 + lo with 0 <= lo < 2^16; hi may be  *)
(*    negative.  The encoding is one to one and order preserving.          *)
(*  - A strength is a fixed-point number of tenths (7 stands for 0.7).     *)
(***************************************************************************)
EXTENDS Integers, Sequences, FiniteSets, TLC

VARIABLES
    \* ---- the validator called on its own (models.py)
    vin,        \* the arguments of get_model_validation_errors
    vout,       \* what the validator functions returned for vin, or NoResult
    vphase,     \* "input" before the call, "output" after it
    \* ---- the storage root (utils.py)
    dir,        \* the files of the storage root: filename -> [data, meta, mtime]
    now,        \* the wall clock, in seconds
    last,       \* the last storage operation: its arguments and what it returned
    ops,        \* the number of storage operations made so far
    sin,        \* the arguments and the fault of a save_image_with_metadata call taken on its own
    \* ---- the tool call in progress (stability_mcp_server.py, stability_client.py)
    pc,         \* where the call is: idle, generate, prepare, await, exit, done
    tool,       \* the tool name of the call
    req,        \* the parameters handle_generate_image extracted
    verrs,      \* validation_errors of the call
    gen,        \* the call's client: open, closes, file_open, sent
    cparams,    \* the params mapping _make_request was given
    resp,       \* the response client.post returned, or NoResponse
    exc,        \* the exception generate_image raised, or NoExc
    cresult,    \* the GenerationResult generate_image returned
    reply,      \* what call_tool ended with
    calls       \* the number of tool calls started so far

vvars == <<vin, vout, vphase>>

svars == <<dir, now, last, ops, sin>>

cvars == <<pc, tool, req, verrs, gen, cparams, resp, exc, cresult, reply, calls>>

(***************************************************************************)
(* Python values                                                           *)
(***************************************************************************)
None == <<>>

Some(v) == <<v>>

\* Python truthiness of an optional string: None and "" are falsy.
Truthy(opt) == opt # None /\ opt[1] # ""

\* dict.get(key, default) on a mapping (a function from keys to tagged values
\* <<"int", n>>, <<"str", s>>, ...)
DictGet(m, key, default) == IF key \in DOMAIN m THEN m[key][2] ELSE default

Limb == 2^16

BigInt(h, l) == [hi |-> h, lo |-> l]

\* a <= b on the two-limb encoding
IntLeq(a, b) == a.hi < b.hi \/ (a.hi = b.hi /\ a.lo <= b.lo)

\* a + d for a small machine integer d
IntAdd(a, d) == BigInt(a.hi + ((a.lo + d) \div Limb), (a.lo + d) % Limb)

Zero == BigInt(0, 0)

(***************************************************************************)
(* models.py: the registry                                                 *)
(***************************************************************************)
\* class StabilityModel, in declaration order
StabilityModel ==
    << "stable-image-core", "stable-image-ultra", "sd3.5-large",
       "sd3.5-large-turbo", "sd3.5-medium", "sd3.5-flash" >>

\* class AspectRatio, in declaration order
AspectRatio ==
    << "1:1", "16:9", "9:16", "21:9", "9:21", "3:2", "2:3", "5:4", "4:5",
       "4:3", "3:4" >>

\* class OutputFormat, in declaration order
OutputFormat == << "jpeg", "png" >>

Range(seq) == { seq[i] : i \in 1..Len(seq) }

\* ModelInfo.max_seed's default, 4294967294 = 65535 * 2^16 + 65534
ModelInfo_max_seed == BigInt(65535, 65534)

ModelInfo(endpoint, neg, i2i, strength) ==
    [ endpoint |-> endpoint,
      supports_negative_prompt |-> neg,
      supports_image_to_image |-> i2i,
      supports_strength |-> strength,
      max_seed |-> ModelInfo_max_seed ]

MODEL_INFO_mutant_flash_negative(m) ==
    CASE m = "stable-image-core" ->
            ModelInfo("/v2beta/stable-image/generate/core", TRUE, TRUE, TRUE)
      [] m = "stable-image-ultra" ->
            ModelInfo("/v2beta/stable-image/generate/ultra", TRUE, TRUE, TRUE)
      [] OTHER ->
            ModelInfo("/v2beta/stable-image/generate/sd3", TRUE, TRUE, TRUE)

MODEL_INFO(m) ==
    CASE m = "stable-image-core" ->
            ModelInfo("/v2beta/stable-image/generate/core", TRUE, TRUE, TRUE)
      [] m = "stable-image-ultra" ->
            ModelInfo("/v2beta/stable-image/generate/ultra", TRUE, TRUE, TRUE)
      [] m = "sd3.5-large" ->
            ModelInfo("/v2beta/stable-image/generate/sd3", TRUE, TRUE, TRUE)
      [] m = "sd3.5-large-turbo" ->
            ModelInfo("/v2beta/stable-image/generate/sd3", TRUE, TRUE, TRUE)
      [] m = "sd3.5-medium" ->
            ModelInfo("/v2beta/stable-image/generate/sd3", TRUE, TRUE, TRUE)
      [] m = "sd3.5-flash" ->
            ModelInfo("/v2beta/stable-image/generate/sd3", FALSE, TRUE, TRUE)

\* the first member whose value is model_name, or None
get_model_by_name(model_name) ==
    LET hits == { i \in 1..Len(StabilityModel) : StabilityModel[i] = model_name }
    IN  IF hits = {} THEN None
        ELSE Some(StabilityModel[CHOOSE i \in hits : \A j \in hits : i <= j])

(***************************************************************************)
(* models.py: the validator                                                *)
(***************************************************************************)
validate_aspect_ratio(aspect_ratio) == aspect_ratio \in Range(AspectRatio)

validate_output_format(output_format) == output_format \in Range(OutputFormat)

validate_seed_mutant_exclusive(seed) ==
    IntLeq(Zero, seed) /\ IntLeq(seed, BigInt(65535, 65534)) /\ seed # BigInt(65535, 65534)

\* 0 <= seed <= 4294967294
validate_seed(seed) == IntLeq(Zero, seed) /\ IntLeq(seed, BigInt(65535, 65534))

validate_strength_mutant_exclusive(strength) == 0 <= strength /\ strength < 10

\* 0.0 <= strength <= 1.0, in tenths
validate_strength(strength) == 0 <= strength /\ strength <= 10

\* An error message: its kind, the model it names ("" when it names none),
\* the offending string value it quotes ("" when it quotes none or a number)
\* and the valid values it lists.
Error(kind, model, value, listing) ==
    [kind |-> kind, model |-> model, value |-> value, listing |-> listing]

ErrIf(cond, err) == IF cond THEN <<err>> ELSE <<>>

\* lines 174-201: the checks made once the model is resolved
ResolvedModelErrors(model_name, model_info, aspect_ratio, output_format, seed, strength, negative_prompt, image_path) ==
       ErrIf(~validate_aspect_ratio(aspect_ratio),
             Error("aspect_ratio", "", aspect_ratio, AspectRatio))
    \o ErrIf(~validate_output_format(output_format),
             Error("output_format", "", output_format, OutputFormat))
    \o ErrIf(~validate_seed(seed), Error("seed", "", "", <<>>))
    \o ( IF Truthy(image_path) /\ strength # None
         THEN IF ~model_info.supports_strength
              THEN <<Error("strength_unsupported", model_name, "", <<>>)>>
              ELSE ErrIf(~validate_strength(strength[1]),
                         Error("strength", "", "", <<>>))
         ELSE <<>> )
    \o ErrIf(Truthy(negative_prompt) /\ ~model_info.supports_negative_prompt,
             Error("negative_prompt_unsupported", model_name, "", <<>>))
    \o ErrIf(Truthy(image_path) /\ ~model_info.supports_image_to_image,
             Error("image_to_image_unsupported", model_name, "", <<>>))

get_model_validation_errors_mutant_no_stop(model_name, aspect_ratio, output_format, seed, strength, negative_prompt, image_path) ==
    LET model == get_model_by_name(model_name)
    IN  ( IF model = None
          THEN <<Error("model", model_name, model_name, StabilityModel)>>
          ELSE <<>> )
        \o ResolvedModelErrors(model_name,
                               MODEL_INFO(IF model = None THEN "stable-image-core"
                                          ELSE model[1]),
                               aspect_ratio, output_format, seed, strength,
                               negative_prompt, image_path)

get_model_validation_errors_mutant_fail_fast(model_name, aspect_ratio, output_format, seed, strength, negative_prompt, image_path) ==
    LET model == get_model_by_name(model_name)
        all == IF model = None
               THEN <<Error("model", model_name, model_name, StabilityModel)>>
               ELSE ResolvedModelErrors(model_name, MODEL_INFO(model[1]),
                                        aspect_ratio, output_format, seed, strength,
                                        negative_prompt, image_path)
    IN  IF all = <<>> THEN <<>> ELSE <<all[1]>>

get_model_validation_errors(model_name, aspect_ratio, output_format, seed, strength, negative_prompt, image_path) ==
    LET model == get_model_by_name(model_name)
    IN  IF model = None
        THEN <<Error("model", model_name, model_name, StabilityModel)>>
        ELSE ResolvedModelErrors(model_name, MODEL_INFO(model[1]),
                                 aspect_ratio, output_format, seed, strength,
                                 negative_prompt, image_path)

(***************************************************************************)
(* stability_client.py: the generation client                              *)
(***************************************************************************)
\* StabilityAPIError(message, status_code, error_type).  A message is its
\* fixed text and the response body it quotes ("" when it quotes none).
Message(text, body) == [text |-> text, body |-> body]

StabilityAPIError(message, status_code, error_type) ==
    [cls |-> "StabilityAPIError", message |-> message, status_code |-> status_code, error_type |-> error_type]

\* an exception of another class; message is str(e)
OtherError(cls, text) ==
    [cls |-> cls, message |-> Message(text, ""), status_code |-> None, error_type |-> ""]

NoExc == OtherError("none", "")

\* line 24: the default of error_type
DefaultErrorType == "api_error"

GenerationResult(image_data, seed, finish_reason, model) ==
    [image_data |-> image_data, seed |-> seed, finish_reason |-> finish_reason, model |-> model]

NoGenerationResult == GenerationResult(<<>>, 0, "", "")

\* The input files of image-to-image calls: what Path.exists and PIL's
\* verify find at a path.
InputFileKind(path) ==
    CASE path = "missing.png" -> "missing"
      [] path = "corrupt.png" -> "corrupt"
      [] OTHER -> "image"

\* lines 94-126.  Returns the exception raised (NoExc when none), the files
\* mapping's key ("image": an open file handle; "none": the empty placeholder)
\* and data.
prepare_files_and_data(params, image_path) ==
    LET data == [k \in DOMAIN params \ {"image_path"} |-> params[k]]
        file_error(text) == [exc |-> StabilityAPIError(Message(text, ""), None, "file_error"), files |-> "", data |-> params]
    IN  IF Truthy(image_path)
        THEN CASE InputFileKind(image_path[1]) = "missing" -> file_error("Image file not found")
               [] InputFileKind(image_path[1]) = "corrupt" -> file_error("Invalid image file")
               [] OTHER -> [exc |-> NoExc, files |-> "image", data |-> data]
        ELSE [exc |-> NoExc, files |-> "none", data |-> params]

\* httpx's Response.is_success
is_success(status_code) == 200 <= status_code /\ status_code <= 299

\* int(text) for the header values a response carries: Some(n), or None when
\* int() raises ValueError
ParseInt(text) ==
    CASE text = "0" -> Some(0)
      [] text = "7" -> Some(7)
      [] OTHER -> None

\* headers.get(name, default) on an optional header
HeaderGet(header, default) == IF header = None THEN default ELSE header[1]

\* lines 166-203: what _make_request makes of a response.  Returns the
\* exception raised inside the try block (NoExc when none) and the result.
HandleResponse(response, params) ==
    LET raise(e) == [exc |-> e, result |-> NoGenerationResult]
        error_message ==
            CASE response.status_code = 401 -> Message("Invalid API key", "")
              [] response.status_code = 402 -> Message("Insufficient credits", "")
              [] response.status_code = 400 -> Message("Bad request", response.text)
              [] response.status_code = 429 -> Message("Rate limit exceeded", "")
              [] OTHER -> Message("HTTP", response.text)
        finish_reason == HeaderGet(response.finish_reason, "SUCCESS")
        seed == IF response.seed = None THEN Some(0) ELSE ParseInt(response.seed[1])
    IN  IF ~is_success(response.status_code)
        THEN raise(StabilityAPIError(error_message, Some(response.status_code), DefaultErrorType))
        ELSE IF seed = None
        THEN raise(OtherError("ValueError", "invalid literal for int()"))
        ELSE IF finish_reason = "CONTENT_FILTERED"
        THEN raise(StabilityAPIError(Message("Generated content was filtered", ""), None, "content_filtered"))
        ELSE [exc |-> NoExc,
              result |-> GenerationResult(response.content, seed[1], finish_reason, DictGet(params, "model", "unknown"))]

MakeRequestExcept_mutant_wraps_all(e) ==
    CASE e.cls = "none" -> e
      [] e.cls = "RequestError" -> StabilityAPIError(Message("Network error", ""), None, "network_error")
      [] OTHER -> StabilityAPIError(Message("Unexpected error", ""), None, DefaultErrorType)

\* lines 205-213: the except clauses of _make_request
MakeRequestExcept(e) ==
    CASE e.cls = "none" -> e
      [] e.cls = "RequestError" -> StabilityAPIError(Message("Network error", ""), None, "network_error")
      [] e.cls = "StabilityAPIError" -> e
      [] OTHER -> StabilityAPIError(Message("Unexpected error", ""), None, DefaultErrorType)

Sd3Endpoint == "/v2beta/stable-image/generate/sd3"

WithKey(m, key, value) == [k \in DOMAIN m \cup {key} |-> IF k = key THEN value ELSE m[k]]

\* lines 246-260: the parameters of a text-to-image request
TextToImageParams(prompt, model, aspect_ratio, seed, output_format, negative_prompt) ==
    LET model_info == MODEL_INFO(model)
        base == [k \in {"prompt", "aspect_ratio", "seed", "output_format"} |->
                    CASE k = "prompt" -> <<"str", prompt>>
                      [] k = "aspect_ratio" -> <<"str", aspect_ratio>>
                      [] k = "seed" -> <<"int", seed>>
                      [] OTHER -> <<"str", output_format>>]
        sd3 == IF model_info.endpoint = Sd3Endpoint
               THEN WithKey(WithKey(base, "model", <<"str", model>>), "mode", <<"str", "text-to-image">>)
               ELSE base
    IN  IF negative_prompt # "" /\ model_info.supports_negative_prompt
        THEN WithKey(sd3, "negative_prompt", <<"str", negative_prompt>>)
        ELSE sd3

\* lines 300-317: the parameters of an image-to-image request
ImageToImageParams(prompt, model, strength, seed, output_format, negative_prompt) ==
    LET model_info == MODEL_INFO(model)
        base == [k \in {"prompt", "seed", "output_format"} |->
                    CASE k = "prompt" -> <<"str", prompt>>
                      [] k = "seed" -> <<"int", seed>>
                      [] OTHER -> <<"str", output_format>>]
        str == IF model_info.supports_strength THEN WithKey(base, "strength", <<"num", strength>>) ELSE base
        sd3 == IF model_info.endpoint = Sd3Endpoint
               THEN WithKey(WithKey(str, "model", <<"str", model>>), "mode", <<"str", "image-to-image">>)
               ELSE str
    IN  IF negative_prompt # "" /\ model_info.supports_negative_prompt
        THEN WithKey(sd3, "negative_prompt", <<"str", negative_prompt>>)
        ELSE sd3

\* lines 238-262, 289-319 and 349-368: what generate_image does with its
\* arguments before _make_request: the exception raised (NoExc when none),
\* the endpoint and the parameters
BuildRequest(a) ==
    LET model == get_model_by_name(a.model)
        none == [k \in {} |-> <<>>]
        invalid(text) == [exc |-> StabilityAPIError(Message(text, ""), None, DefaultErrorType), endpoint |-> "", params |-> none]
    IN  IF model = None THEN invalid("Invalid model")
        ELSE IF Truthy(a.image_path)
        THEN IF ~MODEL_INFO(a.model).supports_image_to_image
             THEN invalid("Model does not support image-to-image generation")
             ELSE [exc |-> NoExc, endpoint |-> MODEL_INFO(a.model).endpoint,
                   params |-> ImageToImageParams(a.prompt, a.model, a.strength, a.seed, a.output_format, a.negative_prompt)]
        ELSE [exc |-> NoExc, endpoint |-> MODEL_INFO(a.model).endpoint,
              params |-> TextToImageParams(a.prompt, a.model, a.aspect_ratio, a.seed, a.output_format, a.negative_prompt)]

(***************************************************************************)
(* stability_mcp_server.py: the tool facade                                *)
(***************************************************************************)
\* What call_tool ends with: a list holding one TextContent (kind "text") or
\* an exception leaving call_tool (kind "raised").  text is the fixed opening
\* of the text; errors, message and hint are what the text goes on to quote:
\* the validation errors, e.message and the suggestion.
Reply(kind, text, errors, message, hint) ==
    [kind |-> kind, text |-> text, errors |-> errors, message |-> message, hint |-> hint]

NoMessage == Message("", "")

NoReply == Reply("none", "", <<>>, NoMessage, "")

TextContent(text) == Reply("text", text, <<>>, NoMessage, "")

\* arguments.get(key, default) on an optional argument
ArgGet(arg, default) == IF arg = None THEN default ELSE arg[1]

\* str.strip() on the paths a call carries
Strip(s) == IF s = "  " THEN "" ELSE s

\* lines 207-211 of models.py: the defaults; 0.7 is 7 tenths
DEFAULT_MODEL == "stable-image-core"

DEFAULT_ASPECT_RATIO == "1:1"

DEFAULT_OUTPUT_FORMAT == "png"

DEFAULT_SEED == Zero

DEFAULT_STRENGTH == 7

\* lines 180-191: the parameters handle_generate_image extracts; the prompt
\* stays optional here, arguments["prompt"] raising KeyError when it is None
ExtractParameters(arguments) ==
    LET image_path == Strip(ArgGet(arguments.image_path, ""))
    IN  [ prompt |-> arguments.prompt,
          model |-> ArgGet(arguments.model, DEFAULT_MODEL),
          aspect_ratio |-> ArgGet(arguments.aspect_ratio, DEFAULT_ASPECT_RATIO),
          seed |-> ArgGet(arguments.seed, DEFAULT_SEED),
          output_format |-> ArgGet(arguments.output_format, DEFAULT_OUTPUT_FORMAT),
          negative_prompt |-> ArgGet(arguments.negative_prompt, ""),
          image_path |-> IF image_path = "" THEN None ELSE Some(image_path),
          strength |-> ArgGet(arguments.strength, DEFAULT_STRENGTH) ]

\* lines 194-202: the validator as handle_generate_image calls it
ValidationErrors(p) ==
    get_model_validation_errors(p.model, p.aspect_ratio, p.output_format, p.seed,
        IF p.image_path # None THEN Some(p.strength) ELSE None,
        IF p.negative_prompt # "" THEN Some(p.negative_prompt) ELSE None,
        p.image_path)

StopsOnValidationErrors_mutant_model_only(validation_errors) ==
    validation_errors # <<>> /\ validation_errors[1].kind = "model"

\* line 204: whether handle_generate_image returns the validation failure
StopsOnValidationErrors(validation_errors) == validation_errors # <<>>

\* lines 227-240: the metadata of a generated image
GenerationMetadata(p, result) ==
    LET keys == {"prompt", "model", "aspect_ratio", "seed", "output_format", "negative_prompt", "finish_reason", "generation_type"}
                \cup (IF p.image_path # None THEN {"input_image_path", "strength"} ELSE {})
    IN  [k \in keys |->
            CASE k = "prompt" -> <<"str", p.prompt>>
              [] k = "model" -> <<"str", p.model>>
              [] k = "aspect_ratio" -> <<"str", p.aspect_ratio>>
              [] k = "seed" -> <<"int", result.seed>>
              [] k = "output_format" -> <<"str", p.output_format>>
              [] k = "negative_prompt" -> <<"str", p.negative_prompt>>
              [] k = "finish_reason" -> <<"str", result.finish_reason>>
              [] k = "generation_type" -> <<"str", IF p.image_path # None THEN "image-to-image" ELSE "text-to-image">>
              [] k = "input_image_path" -> <<"str", p.image_path[1]>>
              [] OTHER -> <<"num", p.strength>>]

\* "credits" in e.message.lower(), on the messages and bodies of the model
MentionsCredits(message) ==
    message.text = "Insufficient credits" \/ message.body = "no credits left"

\* lines 272-293: the except clauses of handle_generate_image
ExceptReply(e) ==
    IF e.cls = "StabilityAPIError"
    THEN Reply("text", "Stability AI Error", <<>>, e.message,
               CASE e.error_type = "authentication_error" -> "check your STABILITY_API_KEY"
                 [] e.error_type = "content_filtered" -> "try a different prompt"
                 [] MentionsCredits(e.message) -> "check your account balance"
                 [] e.error_type = "network_error" -> "check your internet connection"
                 [] OTHER -> "")
    ELSE TextContent("Unexpected Error")

\* lines 172-173: call_tool on a name that is none of the three tools
UnknownToolReply == Reply("raised", "ValueError: Unknown tool", <<>>, NoMessage, "")

(***************************************************************************)
(* The validator on its own: its arguments are drawn from sets that hold   *)
(* every registry value and, for each parameter, values on both sides of   *)
(* each boundary the code tests.                                           *)
(***************************************************************************)
\* how far around 0 and 4294967294 the seeds are drawn
SeedSlack == 1

ModelNames == Range(StabilityModel) \cup {"sdxl-1.0"}

AspectRatios == Range(AspectRatio) \cup {"2:1"}

OutputFormats == Range(OutputFormat) \cup {"webp"}

Seeds ==
    { IntAdd(Zero, d) : d \in (-SeedSlack)..SeedSlack }
    \cup { IntAdd(ModelInfo_max_seed, d) : d \in (-SeedSlack)..SeedSlack }

Strengths == { None, Some(-1), Some(0), Some(10), Some(11) }

NegativePrompts == { None, Some(""), Some("blurry") }

ImagePaths == { None, Some(""), Some("input.png") }

ValidatorInputs ==
    [ model_name : ModelNames, aspect_ratio : AspectRatios,
      output_format : OutputFormats, seed : Seeds, strength : Strengths,
      negative_prompt : NegativePrompts, image_path : ImagePaths ]

NoResult == [ errors |-> <<>>, seed_ok |-> FALSE ]

(***************************************************************************)
(* utils.py: the storage root                                              *)
(*                                                                         *)
(* A filename is [stem, ext]: Path.stem as the sequence of the tokens that *)
(* "_" joins, and the suffix without its dot.  A token holds no "_" and no *)
(* "." (the timestamp YYYYMMDD_HHMMSS is one token, the clock value), so   *)
(* joining is one to one.  Extensions are kept in lower case, as           *)
(* cleanup_storage_directory compares suffix.lower().                      *)
(* A file is [data, meta, mtime]: the bytes of an image, or the mapping    *)
(* json.dump wrote (Some(mapping); None for a file that holds no complete  *)
(* JSON object), and its modification time.                                *)
(* A mapping (a Python dict) is a function from keys to tagged values      *)
(* <<"int", n>>, <<"str", s>>, <<"path", filename>>, <<"tuple", seq>>,     *)
(* <<"list", seq>>.                                                        *)
(***************************************************************************)
Filename(stem, ext) == [stem |-> stem, ext |-> ext]

File(data, meta, mtime) == [data |-> data, meta |-> meta, mtime |-> mtime]

NoName == Filename(<<>>, "")

WriteTestName == Filename(<<".write_test">>, "")

StorageRoot == Filename(<<"images">>, "")

Put(d, name, file) ==
    [n \in DOMAIN d \cup {name} |-> IF n = name THEN file ELSE d[n]]

Remove(d, names) == [n \in DOMAIN d \ names |-> d[n]]

EmptyDir == [n \in {} |-> File(<<>>, None, 0)]

\* lines 52-74.  fault: "none", or the call that raises: "mkdir" (OSError),
\* "touch" or "unlink" of the probe file (PermissionError or another OSError).
\* Returns whether a path is returned (else StorageError is raised) and the
\* files of the root afterwards.
get_storage_path(d, t, fault) ==
    CASE fault = "mkdir" -> [ok |-> FALSE, dir |-> d]
      [] fault = "touch" -> [ok |-> FALSE, dir |-> d]
      [] fault = "unlink" ->
            [ok |-> FALSE,
             dir |-> Put(d, WriteTestName,
                         IF WriteTestName \in DOMAIN d
                         THEN [d[WriteTestName] EXCEPT !.mtime = t]
                         ELSE File(<<>>, None, t))]
      [] OTHER -> [ok |-> TRUE, dir |-> Remove(d, {WriteTestName})]

StoragePathFaults == {"none", "mkdir", "touch", "unlink"}

generate_filename_mutant_no_seed(t, seed, output_format) ==
    Filename(<<"stability", t, 0>>, output_format)

\* lines 89-90: f"{prefix}_{timestamp}_{seed}.{output_format}" at clock t
generate_filename(t, seed, output_format) ==
    Filename(<<"stability", t, seed>>, output_format)

\* line 127: f"{image_path.stem}_metadata.json"
MetadataFilename(image) == Filename(image.stem \o <<"metadata">>, "json")

InjectedKeys == {"file_path", "file_size", "generated_at", "storage_directory"}

EnhancedMetadata_mutant_caller_wins(metadata, image_path, image_data, t) ==
    [k \in DOMAIN metadata \cup InjectedKeys |->
        CASE k \in DOMAIN metadata -> metadata[k]
          [] k = "file_path" -> <<"path", image_path>>
          [] k = "file_size" -> <<"int", Len(image_data)>>
          [] k = "generated_at" -> <<"int", t>>
          [] OTHER -> <<"path", StorageRoot>>]

\* lines 131-137: {**metadata, "file_path": ..., ...}
EnhancedMetadata(metadata, image_path, image_data, t) ==
    [k \in DOMAIN metadata \cup InjectedKeys |->
        CASE k = "file_path" -> <<"path", image_path>>
          [] k = "file_size" -> <<"int", Len(image_data)>>
          [] k = "generated_at" -> <<"int", t>>
          [] k = "storage_directory" -> <<"path", StorageRoot>>
          [] OTHER -> metadata[k]]

\* line 140: what json.dump writes for a mapping, as json.load reads it back:
\* a tuple comes back as a list, the other values as they are
JsonValue(v) == IF v[1] = "tuple" THEN <<"list", v[2]>> ELSE v

JsonDump(mapping) == [k \in DOMAIN mapping |-> JsonValue(mapping[k])]

SaveFaults ==
    (StoragePathFaults \ {"none"})
    \cup {"none", "image_open", "image_write", "metadata_open", "metadata_write"}

\* lines 112-148 at clock t.  fault names the call that raises: one of
\* get_storage_path's, open() of the image ("image_open"), f.write
\* ("image_write": the file is left created, holding none of the bytes),
\* open() of the metadata ("metadata_open"), json.dump ("metadata_write": the
\* file is left created, holding no complete object), or "none".
\* Returns the files of the root afterwards and the (image, metadata) names
\* returned; ok = FALSE stands for StorageError being raised.
save_image_with_metadata(d, t, image_data, metadata, fault) ==
    LET sp == get_storage_path(d, t, IF fault \in StoragePathFaults THEN fault ELSE "none")
        image_path == generate_filename(t, DictGet(metadata, "seed", 0), DictGet(metadata, "output_format", "png"))
        metadata_path == MetadataFilename(image_path)
        d1 == IF fault = "image_write"
              THEN Put(sp.dir, image_path, File(<<>>, None, t))
              ELSE Put(sp.dir, image_path, File(image_data, None, t))
        d2 == IF fault = "metadata_write"
              THEN Put(d1, metadata_path, File(<<>>, None, t))
              ELSE Put(d1, metadata_path,
                       File(<<>>, Some(JsonDump(EnhancedMetadata(metadata, image_path, image_data, t))), t))
        raised(dd) == [ok |-> FALSE, dir |-> dd, image |-> NoName, metadata |-> NoName]
    IN  CASE ~sp.ok -> raised(sp.dir)
          [] fault = "image_open" -> raised(sp.dir)
          [] fault = "image_write" -> raised(d1)
          [] fault = "metadata_open" -> raised(d1)
          [] fault = "metadata_write" -> raised(d2)
          [] OTHER -> [ok |-> TRUE, dir |-> d2, image |-> image_path, metadata |-> metadata_path]

\* line 256: the suffixes cleanup_storage_directory takes for images
ImageSuffixes == {"png", "jpg", "jpeg"}

ImageFiles(d) == { n \in DOMAIN d : n.ext \in ImageSuffixes }

\* lines 265-279: the loop over the files to remove, in order.  image_fails
\* and metadata_fails are the images whose own unlink, or whose metadata
\* file's unlink, raises when it is attempted.
RECURSIVE RemoveLoop(_, _, _, _)
RemoveLoop(d, files, image_fails, metadata_fails) ==
    IF files = <<>> THEN [dir |-> d, count |-> 0]
    ELSE LET file_path == Head(files)
             metadata_path == MetadataFilename(file_path)
         IN  IF file_path \in image_fails
             THEN RemoveLoop(d, Tail(files), image_fails, metadata_fails)
             ELSE IF metadata_path \in DOMAIN d /\ file_path \in metadata_fails
             THEN RemoveLoop(Remove(d, {file_path}), Tail(files), image_fails, metadata_fails)
             ELSE LET rest == RemoveLoop(Remove(d, {file_path, metadata_path}), Tail(files), image_fails, metadata_fails)
                  IN  [dir |-> rest.dir, count |-> rest.count + 1]

cleanup_storage_directory_mutant_newest(d, t, max_files, fault, sorted, image_fails, metadata_fails) ==
    LET sp == get_storage_path(d, t, IF fault \in StoragePathFaults THEN fault ELSE "none")
        files_to_remove == Len(sorted) - max_files
    IN  IF ~sp.ok \/ fault = "listing"
        THEN [dir |-> sp.dir, count |-> 0]
        ELSE IF files_to_remove > 0
        THEN RemoveLoop(sp.dir, SubSeq(sorted, max_files + 1, Len(sorted)), image_fails, metadata_fails)
        ELSE [dir |-> sp.dir, count |-> 0]

\* lines 250-287 at clock t.  sorted is image_files after the sort by mtime;
\* fault is get_storage_path's, or "listing" when iterdir or stat raises.
\* Returns the files of the root afterwards and the count returned.
cleanup_storage_directory(d, t, max_files, fault, sorted, image_fails, metadata_fails) ==
    LET sp == get_storage_path(d, t, IF fault \in StoragePathFaults THEN fault ELSE "none")
        files_to_remove == Len(sorted) - max_files
    IN  IF ~sp.ok \/ fault = "listing"
        THEN [dir |-> sp.dir, count |-> 0]
        ELSE IF files_to_remove > 0
        THEN RemoveLoop(sp.dir, SubSeq(sorted, 1, files_to_remove), image_fails, metadata_fails)
        ELSE [dir |-> sp.dir, count |-> 0]

CleanupFaults == StoragePathFaults \cup {"listing"}

\* lines 254-259: the lists the sort by mtime can produce.  The sort is
\* stable and iterdir lists in any order, so files of equal mtime come in
\* any order.
SortedImageFiles(d) ==
    LET images == ImageFiles(d)
        n == Cardinality(images)
    IN  { s \in [1..n -> images] :
            /\ \A i, j \in 1..n : i < j => s[i] # s[j] /\ d[s[i]].mtime <= d[s[j]].mtime }

(***************************************************************************)
(* The storage root under any sequence of save_image_with_metadata and     *)
(* cleanup_storage_directory calls, each with any of its faults, while the *)
(* clock advances.                                                         *)
(***************************************************************************)
\* the number of storage operations in a run
MaxOps == 2

\* the clock runs from 0 to MaxClock
MaxClock == 1

\* cleanup_storage_directory is called with max_files in 0..MaxKeep
MaxKeep == 1

ImageDatas == { <<1>>, <<2, 3>> }

Dict(seed, output_format) ==
    [k \in {"prompt", "seed", "output_format"} |->
        CASE k = "seed" -> <<"int", seed>>
          [] k = "output_format" -> <<"str", output_format>>
          [] OTHER -> <<"str", "a red fox">>]

\* the mappings passed to save_image_with_metadata: two seeds, both formats,
\* one mapping with neither key (the defaults, seed 0 and png, apply) that
\* holds a tuple, and one that carries a key the function injects itself
Metadatas ==
    { Dict(7, "png"), Dict(7, "jpeg"), Dict(0, "png"),
      [k \in {"prompt", "size"} |->
          IF k = "prompt" THEN <<"str", "a red fox">> ELSE <<"tuple", <<4, 3>>>>],
      [k \in {"seed", "file_path"} |->
          IF k = "seed" THEN <<"int", 7>> ELSE <<"str", "elsewhere.png">>] }

NotesName == Filename(<<"notes">>, "txt")

NotesDir == Put(EmptyDir, NotesName, File(<<9>>, None, 0))

\* the files of the root after a successful save at clock 0
Saved(d, image_data, metadata) ==
    save_image_with_metadata(d, 0, image_data, metadata, "none").dir

\* the storage root at start: empty, holding a file that is not the
\* server's, or holding what earlier successful saves left
InitialDirs ==
    { EmptyDir,
      NotesDir,
      Saved(NotesDir, <<1>>, Dict(7, "png")),
      Saved(Saved(NotesDir, <<1>>, Dict(7, "png")), <<2, 3>>, Dict(0, "png")) }

\* one call of save_image_with_metadata taken on its own: its arguments and
\* its fault
SaveInputs == [image_data : ImageDatas, metadata : Metadatas, fault : SaveFaults]

NoSaveInput == [image_data |-> <<>>, metadata |-> [k \in {} |-> <<>>], fault |-> "none"]

\* the storage root before that call: as at start, or as one more call of
\* save_image_with_metadata at clock 0 left it, a failed one included
SaveDirs ==
    InitialDirs \cup
    { save_image_with_metadata(d, 0, c.image_data, c.metadata, c.fault).dir :
        d \in InitialDirs, c \in SaveInputs }

NoOp ==
    [op |-> "none", ok |-> TRUE, clean |-> TRUE, image |-> NoName,
     metadata |-> NoName, count |-> 0, max_files |-> 0]

ValidatorIdle ==
    /\ vin = CHOOSE x \in ValidatorInputs : TRUE
    /\ vout = NoResult
    /\ vphase = "off"

StorageIdle ==
    /\ dir = EmptyDir
    /\ now = 0
    /\ last = NoOp
    /\ ops = 0
    /\ sin = NoSaveInput

(***************************************************************************)
(* The server: tool calls, one at a time (the tool-call interface          *)
(* serialises them), each from call_tool to the reply.  The process holds  *)
(* its API key (main exits without one, lines 380-384) and a storage root  *)
(* (lines 390-396).  A tool call suspends at its awaits: entering the      *)
(* client, the HTTP post and closing the client.                           *)
(***************************************************************************)
\* the number of tool calls in a run
MaxCalls == 1

Arguments(prompt, model, aspect_ratio, seed, output_format, negative_prompt, image_path, strength) ==
    [ prompt |-> prompt, model |-> model, aspect_ratio |-> aspect_ratio, seed |-> seed,
      output_format |-> output_format, negative_prompt |-> negative_prompt,
      image_path |-> image_path, strength |-> strength ]

NoArguments == Arguments(None, None, None, None, None, None, None, None)

Fox == Some("a red fox")

\* The arguments of the generate_image calls: every model key, an unknown
\* one and the default, as text-to-image and as image-to-image; every kind
\* of input file; each parameter valid and invalid, alone and together; a
\* call without a prompt.
GenerateImageArguments ==
    { Arguments(Fox, m, None, None, None, None, i, None) :
        m \in {None, Some("sdxl-1.0")} \cup { Some(k) : k \in Range(StabilityModel) },
        i \in {None, Some("input.png")} }
    \cup
    { Arguments(Fox, m, None, None, None, None, i, None) :
        m \in {None, Some("sdxl-1.0")},
        i \in {Some("  "), Some("missing.png"), Some("corrupt.png")} }
    \cup
    { Arguments(Fox, m, a, s, f, n, i, st) :
        m \in {None, Some("sd3.5-flash")},
        a \in {None, Some("2:1")},
        s \in {None, Some(IntAdd(ModelInfo_max_seed, 1))},
        f \in {None, Some("webp")},
        n \in {None, Some("blurry")},
        i \in {None, Some("missing.png")},
        st \in {None, Some(11)} }
    \cup
    { Arguments(Fox, None, Some("16:9"), Some(ModelInfo_max_seed), Some("jpeg"), Some(""), None, Some(0)),
      Arguments(None, None, None, None, None, None, None, None),
      Arguments(None, Some("sdxl-1.0"), None, None, None, None, Some("missing.png"), None) }

\* a response of the remote API: status, body text, content and the two
\* headers _make_request reads
Response(status_code, finish_reason, seed) ==
    [status_code |-> status_code, text |-> "invalid parameter", content |-> <<2, 3>>,
     finish_reason |-> finish_reason, seed |-> seed]

NoResponse == Response(0, None, None)

Responses ==
    { Response(st, None, None) : st \in {301, 400, 401, 402, 429, 500} }
    \cup { Response(200, f, s) :
             f \in {None, Some("SUCCESS"), Some("CONTENT_FILTERED")},
             s \in {None, Some("7"), Some("abc")} }

\* the client of a call: whether the HTTP client and the input file are open,
\* how often the client was closed, and the requests dispatched
Client(open, closes, file_open, sent) ==
    [open |-> open, closes |-> closes, file_open |-> file_open, sent |-> sent]

NoClient == Client(FALSE, 0, FALSE, <<>>)

post_mutant_sends_twice(client, endpoint, files, data) ==
    LET request == [endpoint |-> endpoint, data |-> data, files |-> files]
    IN  [client EXCEPT !.sent = Append(Append(@, request), request)]

\* lines 155-159: client.post(url, files=files, data=data) dispatches one
\* request
post(client, endpoint, files, data) ==
    [client EXCEPT !.sent = Append(@, [endpoint |-> endpoint, data |-> data, files |-> files])]

aexit_mutant_leaks_on_error(client, exc_val) ==
    IF exc_val = NoExc THEN [client EXCEPT !.open = FALSE, !.closes = @ + 1] ELSE client

\* lines 75-77: __aexit__(exc_type, exc_val, exc_tb) closes the HTTP client,
\* whatever the exception the block left with
aexit(client, exc_val) == [client EXCEPT !.open = FALSE, !.closes = @ + 1]

ServerIdle ==
    /\ pc = "idle"
    /\ tool = ""
    /\ req = ExtractParameters(NoArguments)
    /\ verrs = <<>>
    /\ gen = NoClient
    /\ cparams = [k \in {} |-> <<>>]
    /\ resp = NoResponse
    /\ exc = NoExc
    /\ cresult = NoGenerationResult
    /\ reply = NoReply
    /\ calls = 0

InitValidate ==
    /\ vin \in ValidatorInputs
    /\ vout = NoResult
    /\ vphase = "input"
    /\ StorageIdle
    /\ ServerIdle

\* one call of get_model_validation_errors, and of validate_seed, on vin
Validate ==
    /\ vphase = "input"
    /\ vout' = [ errors |-> get_model_validation_errors(
                                vin.model_name, vin.aspect_ratio, vin.output_format,
                                vin.seed, vin.strength, vin.negative_prompt,
                                vin.image_path),
                 seed_ok |-> validate_seed(vin.seed) ]
    /\ vphase' = "output"
    /\ UNCHANGED <<vin, svars, cvars>>

NextValidate == Validate

InitStorage ==
    /\ ValidatorIdle
    /\ dir \in InitialDirs
    /\ now = 0
    /\ last = NoOp
    /\ ops = 0
    /\ sin = NoSaveInput
    /\ ServerIdle

\* a second passes
Tick ==
    /\ now < MaxClock
    /\ now' = now + 1
    /\ UNCHANGED <<vvars, cvars, dir, last, ops, sin>>

\* persist: one call of save_image_with_metadata
Persist ==
    /\ ops < MaxOps
    /\ \E image_data \in ImageDatas, metadata \in Metadatas, fault \in SaveFaults :
          LET r == save_image_with_metadata(dir, now, image_data, metadata, fault)
          IN  /\ dir' = r.dir
              /\ last' = [op |-> "persist", ok |-> r.ok, clean |-> (fault = "none"),
                          image |-> r.image, metadata |-> r.metadata,
                          count |-> 0, max_files |-> 0]
    /\ ops' = ops + 1
    /\ UNCHANGED <<vvars, cvars, now, sin>>

\* pruneOldest: one call of cleanup_storage_directory.  A fault of an unlink
\* is drawn only for the files the loop visits.
Prune ==
    /\ ops < MaxOps
    /\ \E max_files \in 0..MaxKeep, fault \in CleanupFaults, sorted \in SortedImageFiles(dir) :
       LET visited == IF fault = "none" /\ Len(sorted) > max_files
                      THEN Range(SubSeq(sorted, 1, Len(sorted) - max_files))
                      ELSE {}
       IN  \E image_fails \in SUBSET visited :
           \E metadata_fails \in SUBSET (visited \ image_fails) :
              LET r == cleanup_storage_directory(dir, now, max_files, fault, sorted, image_fails, metadata_fails)
              IN  /\ dir' = r.dir
                  /\ last' = [op |-> "prune", ok |-> TRUE,
                              clean |-> (fault = "none" /\ image_fails = {} /\ metadata_fails = {}),
                              image |-> NoName, metadata |-> NoName,
                              count |-> r.count, max_files |-> max_files]
    /\ ops' = ops + 1
    /\ UNCHANGED <<vvars, cvars, now, sin>>

NextStorage == Tick \/ Persist \/ Prune

InitSave ==
    /\ ValidatorIdle
    /\ dir \in SaveDirs
    /\ now \in 0..MaxClock
    /\ last = NoOp
    /\ ops = 0
    /\ sin \in SaveInputs
    /\ ServerIdle

\* the call of save_image_with_metadata on sin
Save ==
    /\ ops = 0
    /\ LET r == save_image_with_metadata(dir, now, sin.image_data, sin.metadata, sin.fault)
       IN  /\ dir' = r.dir
           /\ last' = [op |-> "persist", ok |-> r.ok, clean |-> (sin.fault = "none"),
                       image |-> r.image, metadata |-> r.metadata,
                       count |-> 0, max_files |-> 0]
    /\ ops' = 1
    /\ UNCHANGED <<vvars, cvars, now, sin>>

NextSave == Save

Init ==
    /\ ValidatorIdle
    /\ dir \in InitialDirs
    /\ now = 0
    /\ last = NoOp
    /\ ops = 0
    /\ sin = NoSaveInput
    /\ ServerIdle

\* call_tool("generate_image", arguments) up to the await of generate_image
\* (lines 163-164 and 178-213)
CallGenerateImage ==
    /\ pc = "idle" /\ calls < MaxCalls
    /\ \E arguments \in GenerateImageArguments :
          LET p == ExtractParameters(arguments)
              validation_errors == ValidationErrors(p)
          IN  /\ req' = p
              /\ IF p.prompt = None
                 THEN /\ verrs' = <<>>
                      /\ reply' = ExceptReply(OtherError("KeyError", "prompt"))
                      /\ pc' = "done"
                 ELSE /\ verrs' = validation_errors
                      /\ IF StopsOnValidationErrors(validation_errors)
                         THEN /\ reply' = Reply("text", "Parameter validation failed", validation_errors, NoMessage, "")
                              /\ pc' = "done"
                         ELSE /\ reply' = NoReply
                              /\ pc' = "generate"
    /\ tool' = "generate_image"
    /\ calls' = calls + 1
    /\ UNCHANGED <<vvars, svars, gen, cparams, resp, exc, cresult>>

\* call_tool("list_models", ...) (lines 166-167 and 296-343)
CallListModels ==
    /\ pc = "idle" /\ calls < MaxCalls
    /\ tool' = "list_models"
    /\ reply' = TextContent("Available Stability AI Models")
    /\ pc' = "done"
    /\ calls' = calls + 1
    /\ UNCHANGED <<vvars, svars, req, verrs, gen, cparams, resp, exc, cresult>>

\* call_tool("get_storage_info", ...) (lines 169-170 and 346-374);
\* get_storage_stats probes the storage root and catches what it raises
CallGetStorageInfo ==
    /\ pc = "idle" /\ calls < MaxCalls
    /\ \E fault \in StoragePathFaults :
          LET sp == get_storage_path(dir, now, fault)
          IN  /\ dir' = sp.dir
              /\ reply' = IF sp.ok THEN TextContent("Image Storage Information")
                          ELSE TextContent("Error getting storage information")
    /\ tool' = "get_storage_info"
    /\ pc' = "done"
    /\ calls' = calls + 1
    /\ UNCHANGED <<vvars, now, last, ops, sin, req, verrs, gen, cparams, resp, exc, cresult>>

\* call_tool with a name that is none of the three (lines 172-173)
CallUnknownTool ==
    /\ pc = "idle" /\ calls < MaxCalls
    /\ tool' = "delete_image"
    /\ reply' = UnknownToolReply
    /\ pc' = "done"
    /\ calls' = calls + 1
    /\ UNCHANGED <<vvars, svars, req, verrs, gen, cparams, resp, exc, cresult>>

\* generate_image, line 349: StabilityClient() and __aenter__
ClientEnter ==
    /\ pc = "generate"
    /\ gen' = [gen EXCEPT !.open = TRUE]
    /\ pc' = "prepare"
    /\ UNCHANGED <<vvars, svars, tool, req, verrs, cparams, resp, exc, cresult, reply, calls>>

\* generate_text_to_image or generate_image_to_image, then _make_request up
\* to the await of client.post (lines 350-368, 238-262, 289-319, 145-159)
MakeRequestSend ==
    /\ pc = "prepare"
    /\ LET built == BuildRequest(req)
           prepared == prepare_files_and_data(built.params, req.image_path)
       IN  IF built.exc # NoExc
           THEN /\ exc' = built.exc
                /\ pc' = "exit"
                /\ UNCHANGED <<gen, cparams>>
           ELSE /\ cparams' = built.params
                /\ IF prepared.exc # NoExc
                   THEN /\ exc' = MakeRequestExcept(prepared.exc)
                        /\ pc' = "exit"
                        /\ UNCHANGED gen
                   ELSE /\ gen' = post([gen EXCEPT !.file_open = (prepared.files = "image")],
                                        built.endpoint, prepared.files, prepared.data)
                        /\ pc' = "await"
                        /\ UNCHANGED exc
    /\ UNCHANGED <<vvars, svars, tool, req, verrs, resp, cresult, reply, calls>>

\* client.post returns a response: lines 161-203, and the except clauses
PostReturns ==
    /\ pc = "await"
    /\ \E response \in Responses :
          LET handled == HandleResponse(response, cparams)
          IN  /\ resp' = response
              /\ exc' = MakeRequestExcept(handled.exc)
              /\ cresult' = handled.result
    /\ gen' = [gen EXCEPT !.file_open = FALSE]
    /\ pc' = "exit"
    /\ UNCHANGED <<vvars, svars, tool, req, verrs, cparams, reply, calls>>

\* client.post raises httpx.RequestError: lines 205-209; the lines that close
\* the file handles are skipped
PostRaises ==
    /\ pc = "await"
    /\ exc' = MakeRequestExcept(OtherError("RequestError", "connection failed"))
    /\ pc' = "exit"
    /\ UNCHANGED <<vvars, svars, tool, req, verrs, gen, cparams, resp, cresult, reply, calls>>

ClientExit_mutant_saves_on_error ==
    /\ pc = "exit"
    /\ gen' = aexit(gen, exc)
    /\ \E fault \in SaveFaults, viewer_opened \in BOOLEAN :
          LET saved == save_image_with_metadata(dir, now, cresult.image_data, GenerationMetadata(req, cresult), fault)
          IN  /\ dir' = saved.dir
              /\ reply' = IF exc # NoExc THEN ExceptReply(exc)
                          ELSE IF saved.ok
                          THEN Reply("text", "Image generated successfully", <<>>, NoMessage,
                                     IF viewer_opened THEN "Opened in system image viewer" ELSE "Saved to disk")
                          ELSE TextContent("Image generated but failed to save")
    /\ pc' = "done"
    /\ UNCHANGED <<vvars, now, last, ops, sin, tool, req, verrs, cparams, resp, exc, cresult, calls>>

\* __aexit__ closes the client (lines 75-77); then handle_generate_image
\* goes on (lines 226-293): after an exception with its except clauses,
\* after a result with saving the image and replying
ClientExit ==
    /\ pc = "exit"
    /\ gen' = aexit(gen, exc)
    /\ IF exc # NoExc
       THEN /\ reply' = ExceptReply(exc)
            /\ UNCHANGED dir
       ELSE \E fault \in SaveFaults, viewer_opened \in BOOLEAN :
               LET saved == save_image_with_metadata(dir, now, cresult.image_data, GenerationMetadata(req, cresult), fault)
               IN  /\ dir' = saved.dir
                   /\ reply' = IF saved.ok
                               THEN Reply("text", "Image generated successfully", <<>>, NoMessage,
                                          IF viewer_opened THEN "Opened in system image viewer" ELSE "Saved to disk")
                               ELSE TextContent("Image generated but failed to save")
    /\ pc' = "done"
    /\ UNCHANGED <<vvars, now, last, ops, sin, tool, req, verrs, cparams, resp, exc, cresult, calls>>

\* the reply is handed to the caller; the next call may come
ReturnToIdle ==
    /\ pc = "done"
    /\ pc' = "idle"
    /\ tool' = ""
    /\ req' = ExtractParameters(NoArguments)
    /\ verrs' = <<>>
    /\ gen' = NoClient
    /\ cparams' = [k \in {} |-> <<>>]
    /\ resp' = NoResponse
    /\ exc' = NoExc
    /\ cresult' = NoGenerationResult
    /\ reply' = NoReply
    /\ UNCHANGED <<vvars, svars, calls>>

Next ==
    \/ CallGenerateImage
    \/ CallListModels
    \/ CallGetStorageInfo
    \/ CallUnknownTool
    \/ ClientEnter
    \/ MakeRequestSend
    \/ PostReturns
    \/ PostRaises
    \/ ClientExit
    \/ ReturnToIdle
    \/ Tick

vars == <<vvars, svars, cvars>>

SpecValidate == InitValidate /\ [][NextValidate]_vars

SpecStorage == InitStorage /\ [][NextStorage]_vars

SpecSave == InitSave /\ [][NextSave]_vars

Spec == Init /\ [][Next]_vars

(***************************************************************************)
(* Properties                                                              *)
(***************************************************************************)
\* the metadata files of the storage root: <stem>_metadata.json
MetadataFiles(d) ==
    { n \in DOMAIN d : n.ext = "json" /\ Len(n.stem) > 0 /\ n.stem[Len(n.stem)] = "metadata" }

\* C1: after any sequence of persist and pruneOldest operations, failed ones
\* included, every image file of the storage root has its metadata file
\* <image stem>_metadata.json and every such metadata file has its image:
\* no image without metadata, no metadata without image.
C1_PairingInvariant ==
    /\ \A image \in ImageFiles(dir) : MetadataFilename(image) \in DOMAIN dir
    /\ \A metadata \in MetadataFiles(dir) :
          \E image \in ImageFiles(dir) : MetadataFilename(image) = metadata

\* the call in progress is a generate_image call whose parameters the
\* validator rejects
RejectedCall ==
    tool = "generate_image" /\ req.prompt # None /\ ValidationErrors(req) # <<>>

\* C2: a generate_image call whose validation returns errors never enters the
\* generation client and never dispatches an HTTP request; it ends with the
\* 'Parameter validation failed' response that lists all the errors.
C2_ValidationErrorsNeverDispatched ==
    RejectedCall =>
        /\ pc = "done"
        /\ gen = NoClient
        /\ reply.kind = "text"
        /\ reply.text = "Parameter validation failed"
        /\ reply.errors = ValidationErrors(req)

C2_Witness ==
    /\ RejectedCall
    /\ pc = "done"
    /\ Len(reply.errors) >= 3
    /\ req.image_path # None

\* C3: every tool call, whatever the tool name and the arguments, ends by
\* returning a text response; none ends with an exception leaving call_tool.
C3_EveryCallReturnsText ==
    pc = "done" => reply.kind = "text"

\* the classification tag the error taxonomy assigns to a status
TagOfStatus(status_code) ==
    CASE status_code = 401 -> "authentication_error"
      [] status_code = 402 -> "insufficient_credits"
      [] status_code = 400 -> "bad_request"
      [] status_code = 429 -> "rate_limit"
      [] OTHER -> "api_error"

\* C4: the error raised for a non-success response carries the response's
\* status code and the classification tag of that status: 401
\* authentication_error, 402 insufficient_credits, 400 bad_request, 429
\* rate_limit, any other status the generic API error.
C4_ErrorClassifiedByStatus ==
    (pc = "exit" /\ resp # NoResponse /\ ~is_success(resp.status_code)) =>
        /\ exc.cls = "StabilityAPIError"
        /\ exc.status_code = Some(resp.status_code)
        /\ exc.error_type = TagOfStatus(resp.status_code)

\* C5: a response with a success status yields an error if and only if its
\* finish-reason header is CONTENT_FILTERED, and the error is then classified
\* content_filtered; every other success response yields a GenerationResult,
\* whatever its seed and finish-reason headers.
C5_OnlyContentFilterFailsSuccess ==
    (pc = "exit" /\ resp # NoResponse /\ is_success(resp.status_code)) =>
        /\ (exc # NoExc) <=> (resp.finish_reason = Some("CONTENT_FILTERED"))
        /\ exc # NoExc => exc.error_type = "content_filtered"

\* the call in progress is an image-to-image call whose input file is missing
\* or is no image
BadInputFileCall ==
    /\ tool = "generate_image"
    /\ req.prompt # None
    /\ req.image_path # None
    /\ InputFileKind(req.image_path[1]) \in {"missing", "corrupt"}

\* C6: an image-to-image call whose input file does not exist or is no image
\* dispatches no HTTP request at any point; once it is in the generation
\* client it fails with the file_error, which leaves _make_request and the
\* client unchanged and is what the reply reports.
C6_BadInputFileFailsBeforeDispatch ==
    BadInputFileCall =>
        /\ gen.sent = <<>>
        /\ pc # "await"
        /\ ~gen.file_open
        /\ (pc = "exit" \/ (pc = "done" /\ gen.closes > 0)) =>
              /\ exc.cls = "StabilityAPIError"
              /\ exc.error_type = "file_error"
              /\ exc.status_code = None
              /\ exc.message.text \in {"Image file not found", "Invalid image file"}
        /\ (pc = "done" /\ gen.closes > 0) =>
              /\ reply.kind = "text"
              /\ reply.text = "Stability AI Error"
              /\ reply.message = exc.message
              /\ reply.hint = ""

C6_Witness ==
    /\ BadInputFileCall
    /\ pc = "done"
    /\ req.image_path = Some("corrupt.png")
    /\ gen.closes = 1
    /\ reply.message.text = "Invalid image file"

Count(errors, kind) == Cardinality({ i \in 1..Len(errors) : errors[i].kind = kind })

One(b) == IF b THEN 1 ELSE 0

\* 0 <= s <= 4294967294 on the two-limb encoding
InSeedRange(s) == s.hi >= 0 /\ (s.hi < 65535 \/ (s.hi = 65535 /\ s.lo <= 65534))

Resolved == vin.model_name \in Range(StabilityModel)

\* a check of the validator is violated by vin
CheckViolated ==
    \/ ~Resolved
    \/ vin.aspect_ratio \notin Range(AspectRatio)
    \/ vin.output_format \notin Range(OutputFormat)
    \/ ~InSeedRange(vin.seed)
    \/ /\ Truthy(vin.image_path) /\ vin.strength # None
       /\ \/ ~MODEL_INFO(vin.model_name).supports_strength
          \/ vin.strength[1] < 0
          \/ vin.strength[1] > 10
    \/ Truthy(vin.negative_prompt) /\ ~MODEL_INFO(vin.model_name).supports_negative_prompt
    \/ Truthy(vin.image_path) /\ ~MODEL_INFO(vin.model_name).supports_image_to_image

\* C7: for a model key that is none of the six registry entries, validate
\* returns exactly one error, the one that lists all valid model keys,
\* whatever the other arguments are.
C7_UnresolvedModelSingleError ==
    (vphase = "output" /\ ~Resolved) =>
        /\ Len(vout.errors) = 1
        /\ vout.errors[1].kind = "model"
        /\ vout.errors[1].model = vin.model_name
        /\ Range(vout.errors[1].listing) = Range(StabilityModel)
        /\ Len(StabilityModel) = 6

C7_Witness ==
    /\ vphase = "output"
    /\ vin.model_name = "sdxl-1.0"
    /\ vin.aspect_ratio = "2:1"
    /\ vin.output_format = "webp"
    /\ vin.seed = BigInt(-1, 65535)
    /\ vin.strength = Some(11)
    /\ vin.negative_prompt = Some("blurry")
    /\ vin.image_path = Some("input.png")
    /\ Len(vout.errors) = 1

\* C8: for a resolved model, validate appends exactly one error for each of
\* aspect ratio, output format and seed that is invalid and none for each
\* that is valid, independently of the others; and the list returned is
\* empty if and only if no check of the validator is violated.
C8_IndependentChecks ==
    vphase = "output" =>
        /\ Resolved =>
              /\ Count(vout.errors, "aspect_ratio") = One(vin.aspect_ratio \notin Range(AspectRatio))
              /\ Count(vout.errors, "output_format") = One(vin.output_format \notin Range(OutputFormat))
              /\ Count(vout.errors, "seed") = One(~InSeedRange(vin.seed))
        /\ (vout.errors = <<>>) <=> ~CheckViolated

C8_Witness ==
    /\ vphase = "output"
    /\ Resolved
    /\ vin.aspect_ratio = "2:1"
    /\ vin.output_format = "webp"
    /\ vin.seed = BigInt(65535, 65535)
    /\ Count(vout.errors, "aspect_ratio") + Count(vout.errors, "output_format") + Count(vout.errors, "seed") = 3

\* C9: validate_seed(s) holds if and only if 0 <= s <= 4294967294:
\* 4294967294 is accepted, -1 and 4294967295 are rejected, and the bound is
\* the max_seed of every model descriptor.
C9_SeedRange ==
    vphase = "output" =>
        /\ vout.seed_ok <=> InSeedRange(vin.seed)
        /\ vin.seed = BigInt(65535, 65534) => vout.seed_ok
        /\ vin.seed \in {BigInt(-1, 65535), BigInt(65535, 65535)} => ~vout.seed_ok
        /\ \A m \in Range(StabilityModel) :
              vout.seed_ok <=> (IntLeq(Zero, vin.seed) /\ IntLeq(vin.seed, MODEL_INFO(m).max_seed))

C9_Witness ==
    /\ vphase = "output"
    /\ vin.seed = BigInt(65535, 65534)
    /\ vout.seed_ok

NamesNegativePrompt(errors, m) ==
    \E i \in 1..Len(errors) : errors[i].kind = "negative_prompt_unsupported" /\ errors[i].model = m

\* C10: for the model that lacks negative-prompt support, sd3.5-flash, a
\* non-empty negative prompt yields an error naming the model, whatever the
\* other parameters are; for a model with the support there is no such error.
C10_NegativePromptSupport ==
    (vphase = "output" /\ Resolved) =>
        /\ (vin.model_name = "sd3.5-flash" /\ Truthy(vin.negative_prompt))
              => NamesNegativePrompt(vout.errors, vin.model_name)
        /\ vin.model_name # "sd3.5-flash" => Count(vout.errors, "negative_prompt_unsupported") = 0
        /\ ~Truthy(vin.negative_prompt) => Count(vout.errors, "negative_prompt_unsupported") = 0

C10_Witness ==
    /\ vphase = "output"
    /\ vin.model_name = "sd3.5-flash"
    /\ vin.negative_prompt = Some("blurry")
    /\ vin.aspect_ratio = "2:1"
    /\ vin.image_path = Some("input.png")
    /\ vin.strength = Some(11)
    /\ NamesNegativePrompt(vout.errors, "sd3.5-flash")
    /\ Len(vout.errors) = 3

StrengthErrors(errors) == Count(errors, "strength_unsupported") + Count(errors, "strength")

\* C11: for a resolved model, validate returns a strength error if and only
\* if an image reference is present, a strength was supplied and either the
\* model lacks strength support or the strength is outside [0.0, 1.0]; it
\* returns at most one, and none when no image reference is present.
C11_StrengthError ==
    (vphase = "output" /\ Resolved) =>
        /\ StrengthErrors(vout.errors) =
              One(/\ Truthy(vin.image_path)
                  /\ vin.strength # None
                  /\ \/ ~MODEL_INFO(vin.model_name).supports_strength
                     \/ vin.strength[1] < 0
                     \/ vin.strength[1] > 10)
        /\ ~Truthy(vin.image_path) => StrengthErrors(vout.errors) = 0

C11_Witness ==
    /\ vphase = "output"
    /\ Resolved
    /\ vin.image_path = Some("input.png")
    /\ vin.strength = Some(11)
    /\ vin.seed = BigInt(-1, 65535)
    /\ StrengthErrors(vout.errors) = 1
    /\ Len(vout.errors) >= 2

\* the step is a call of cleanup_storage_directory
PruneStep == ops' = ops + 1 /\ last'.op = "prune"

\* the image files the step removes
RemovedImages == ImageFiles(dir) \ ImageFiles(dir')

\* the files of the root other than the write probe of get_storage_path
Files(d) == DOMAIN d \ {WriteTestName}

C13_PruneCountsRemovedImages ==
    [][ PruneStep => last'.count = Cardinality(RemovedImages) ]_vars

\* the call of save_image_with_metadata on sin has returned
Saved_ok == sin # NoSaveInput /\ last.op = "persist" /\ last.ok

\* the JSON object of the metadata path returned
SavedObject == dir[last.metadata].meta

\* the image path returned holds exactly the bytes given, and the metadata
\* path returned a JSON object with the keys given and the four injected keys
SavedImageAndInjected ==
    /\ last.image \in DOMAIN dir
    /\ dir[last.image].data = sin.image_data
    /\ last.metadata \in DOMAIN dir
    /\ SavedObject # None
    /\ DOMAIN SavedObject[1] = DOMAIN sin.metadata \cup InjectedKeys
    /\ SavedObject[1]["file_path"] = <<"path", last.image>>
    /\ SavedObject[1]["file_size"] = <<"int", Len(sin.image_data)>>
    /\ SavedObject[1]["generated_at"] = <<"int", now>>
    /\ SavedObject[1]["storage_directory"] = <<"path", StorageRoot>>

\* C14 as stated: a successful persist(b, m) returns an image path whose
\* content is exactly b and a metadata path whose JSON object contains every
\* key of m with the value m gave it, plus the four injected keys file_path,
\* file_size (= length of b), generated_at and storage_directory.
C14_RoundTripKeepsEveryValue ==
    Saved_ok =>
        /\ SavedImageAndInjected
        /\ \A k \in DOMAIN sin.metadata : SavedObject[1][k] = sin.metadata[k]

\* C14, amended: a successful persist(b, m) returns an image path whose
\* content is exactly b and a metadata path whose JSON object contains every
\* key of m; each key of m other than the four injected keys holds the value
\* m gave it as JSON reads it back (a tuple as a list), and the four injected
\* keys hold the values persist computes, replacing any m gave them.
C14_RoundTripInjectedKeysWin ==
    Saved_ok =>
        /\ SavedImageAndInjected
        /\ \A k \in DOMAIN sin.metadata \ InjectedKeys :
              SavedObject[1][k] = JsonValue(sin.metadata[k])

\* a persist that succeeded on a mapping carrying the key file_path
C14_Witness ==
    /\ Saved_ok
    /\ "file_path" \in DOMAIN sin.metadata
    /\ last.image \in DOMAIN dir /\ last.metadata \in DOMAIN dir
    /\ dir[last.metadata].meta # None
    /\ DOMAIN dir[last.metadata].meta[1] = {"seed"} \cup InjectedKeys
    /\ dir[last.metadata].meta[1]["file_path"] = <<"path", last.image>>
    /\ dir[last.image].data = <<2, 3>>

\* C15: get_storage_path called twice in a row on the storage root, which
\* exists and is writable, returns the same path both times and leaves the
\* files of the root and their contents as they were before the first call,
\* whatever files the root held.
C15_ResolveTwiceChangesNothing ==
    LET first == get_storage_path(dir, now, "none")
        second == get_storage_path(first.dir, now, "none")
    IN  /\ first.ok /\ second.ok
        /\ first.dir = dir
        /\ second.dir = dir

\* the call in progress is a generate_image call that passed validation, so
\* that handle_generate_image awaits generate_image
GenerationCall ==
    tool = "generate_image" /\ req.prompt # None /\ verrs = <<>>

\* the call has left generate_image, with a result or an exception
GenerationEnded == GenerationCall /\ pc = "done"

\* C16: the HTTP client acquired for a generation call is closed exactly once
\* on every outcome of the call (a result, a file error, an HTTP error
\* status, a content-filtered response, a transport failure): the client is
\* open while the call is inside generate_image, never closed before, and
\* closed once and not open when the call has returned or raised.
C16_ClientClosedOnce ==
    /\ pc \in {"prepare", "await", "exit"} => GenerationCall /\ gen.open /\ gen.closes = 0
    /\ GenerationEnded => ~gen.open /\ gen.closes = 1
    /\ pc \in {"idle", "generate"} => ~gen.open /\ gen.closes = 0

\* a call that ended with a transport failure, its client closed
C16_Witness ==
    /\ GenerationEnded
    /\ exc.cls = "StabilityAPIError" /\ exc.error_type = "network_error"
    /\ gen.sent # <<>>
    /\ ~gen.open /\ gen.closes = 1

\* the image files that have their metadata file, and those metadata files
PairedFiles(d) ==
    LET images == { n \in ImageFiles(d) : MetadataFilename(n) \in DOMAIN d }
    IN  images \cup { MetadataFilename(n) : n \in images }

Content(file) == <<file.data, file.meta>>

\* the step is the call of save_image_with_metadata on sin
SaveStep == sin # NoSaveInput /\ ops = 0 /\ ops' = 1

C18_ResultNamesModel ==
    (GenerationCall /\ pc \in {"exit", "done"} /\ exc = NoExc) =>
        /\ req.model \in Range(StabilityModel)
        /\ cresult.model = req.model

\* the outcome of generate_image: Success is a result and no exception,
\* Failed an exception and no result
Success == exc = NoExc /\ cresult # NoGenerationResult

Failed == exc # NoExc /\ cresult = NoGenerationResult

\* the steps a call takes: generate (Idle), prepare (PreparingPayload), await
\* (AwaitingResponse), then exit and done with its outcome
CallOrder ==
    { <<"idle", "generate">>, <<"idle", "done">>, <<"generate", "prepare">>,
      <<"prepare", "await">>, <<"prepare", "exit">>, <<"await", "exit">>,
      <<"exit", "done">>, <<"done", "idle">> }

C19_OneRequest ==
    /\ Len(gen.sent) <= 1
    /\ pc \in {"idle", "generate", "prepare"} => gen.sent = <<>> /\ ~Success /\ ~Failed
    /\ pc = "await" => Len(gen.sent) = 1 /\ ~Success /\ ~Failed
    /\ (pc = "exit" \/ GenerationEnded) =>
          /\ Success \/ Failed
          /\ ~(Success /\ Failed)
          /\ resp = NoResponse /\ exc.error_type = "file_error" => gen.sent = <<>>
          /\ Success => Len(gen.sent) = 1 /\ resp # NoResponse

C19_Terminal ==
    /\ pc' # pc => <<pc, pc'>> \in CallOrder
    /\ (pc = "exit" /\ pc' = "done") =>
          /\ gen'.sent = gen.sent
          /\ exc' = exc
          /\ cresult' = cresult

\* C19: every generation call goes through Idle, PreparingPayload and
\* AwaitingResponse in that order and ends in exactly one of Success and
\* Failed; it issues at most one HTTP request, none when it fails in
\* PreparingPayload, and once it is in Success or Failed its outcome and its
\* requests stay as they are: a failed call is never sent again.
C19_SingleAttempt ==
    []C19_OneRequest /\ [][C19_Terminal]_vars

\* a call that failed on an HTTP error status after its one request
C19_Witness ==
    /\ GenerationEnded
    /\ Failed
    /\ exc.status_code = Some(500)
    /\ Len(gen.sent) = 1

\* C20: an image-to-image call that opened its input file for the multipart
\* body has closed the file handle by the time it returns or raises, on every
\* exit path: a result, an HTTP error status, a content-filtered response and
\* a transport failure raised by the post.
C20_InputFileClosed ==
    (GenerationCall /\ pc \in {"exit", "done"}) => ~gen.file_open

\* a step of a generate_image tool call, from call_tool to the reply
GenerateImageStep == tool = "generate_image" \/ tool' = "generate_image"

\* C21: a generate_image tool call writes to the storage root only after the
\* generation client reached Success: the only step of the call that changes
\* the files of the root or their contents is the one that follows a result,
\* so a call that ends in a validation failure, a file_error, an HTTP error
\* status, a content-filtered response or a network error leaves them as
\* they were.
C21_WritesOnlyAfterSuccess ==
    [][ (GenerateImageStep /\ dir' # dir) => (pc = "exit" /\ Success) ]_vars

\* a call that dispatched its request has ended in a network error, with
\* saved images in the storage root
C21_Witness ==
    /\ GenerationEnded
    /\ Failed
    /\ exc.error_type = "network_error"
    /\ Len(gen.sent) = 1
    /\ ImageFiles(dir) # {}

\* C22: two distinct image files of the storage root never share a metadata
\* file: after any sequence of persist and pruneOldest calls, whatever the
\* seeds, output formats and timestamps of the images saved, the metadata
\* filename <stem>_metadata.json of an image file is that of no other image
\* file of the root, so that each metadata file describes the one image it
\* is paired with and pruning an image removes the metadata of no other.
C22_NoSharedMetadataFile ==
    \A image, other \in ImageFiles(dir) :
        MetadataFilename(image) = MetadataFilename(other) => image = other

\* C23: pruneOldest(maxFiles) changes nothing in the storage root except the
\* surplus oldest image files and their paired metadata files: maxFiles image
\* files of largest modification time (all of them when there are fewer),
\* the metadata files of these, and every file that is neither an image nor
\* the paired metadata of a removed image are still there after the call,
\* with the content they had.
C23_PruneLeavesTheRest ==
    [][ PruneStep =>
          LET images == ImageFiles(dir)
              N == IF last'.max_files < Cardinality(images)
                   THEN last'.max_files ELSE Cardinality(images)
              Unchanged(n) == n \in DOMAIN dir' /\ Content(dir'[n]) = Content(dir[n])
          IN  /\ \E newest \in SUBSET images :
                    /\ Cardinality(newest) = N
                    /\ \A k \in newest : \A o \in images \ newest : dir[o].mtime <= dir[k].mtime
                    /\ \A k \in newest :
                          /\ Unchanged(k)
                          /\ MetadataFilename(k) \in DOMAIN dir => Unchanged(MetadataFilename(k))
              /\ \A n \in DOMAIN dir \ images :
                    n \notin { MetadataFilename(r) : r \in RemovedImages } => Unchanged(n) ]_vars

=============================================================================
